---------------------------- MODULE Spec2Model ----------------------------
(***************************************************************************)
(* DevPulse API gateway (src/api-gateway/app.py): the request pipeline of  *)
(* the Flask application - URL routing, the sliding-window rate limiter    *)
(* (_check_rate_limit), bearer-token validation (_validate_auth) and the   *)
(* reverse-proxy dispatch (_proxy) - modelled statement by statement for a *)
(* set of worker threads that share the module-level dict ip_trackers.     *)
(*                                                                         *)
(* Time is the integer reading of time.time(); it never decreases.         *)
(* Paths are sequences of segments: "/users/abc" is <<"users", "abc">>     *)
(* and "/" is <<>>.                                                        *)
(***************************************************************************)
EXTENDS Integers, Sequences, FiniteSets, TLC

(***************************************************************************)
(* Bounds of the model.  RATE_LIMIT_MAX and RATE_LIMIT_WINDOW are 100 and  *)
(* 60 in the source (app.py:34-35); they are scaled down here so that the  *)
(* (max+1)th request and the draining of a window are reached.             *)
(***************************************************************************)
RATE_LIMIT_MAX == 2

RATE_LIMIT_WINDOW == 2

MaxTime == 3

\* number of calls of get_redis followed
MaxCalls == 3

\* number of users created
MaxUsers == 2

TokenLifetime == 2

\* resolution of the clock below the second
TicksPerSecond == 2

(***************************************************************************)
(* Input sets.                                                             *)
(***************************************************************************)
Threads == {"t1", "t2"}

SeqThreads == {"t1"}

IPs == {"10.0.0.1", "10.0.0.2"}

None == "None"

Methods == {"GET", "POST"}

Paths ==
  { <<>>, <<"health">>, <<"metrics">>, <<"auth", "login">>,
    <<"users">>, <<"users", "abc">>, <<"nope">> }

\* A token is what jwt.decode looks at: whether the HS256 signature verifies
\* under JWT_SECRET, the exp claim, and the role claim.
Tokens ==
  { [sig |-> "good", exp |-> MaxTime + 1,    role |-> "user"],
    [sig |-> "good", exp |-> MaxTime + 1,    role |-> "admin"],
    [sig |-> "good", exp |-> TokenLifetime,  role |-> "user"],
    [sig |-> "bad",  exp |-> MaxTime + 1,    role |-> "user"] }

\* The Authorization header: absent, a value without the "Bearer " prefix,
\* or "Bearer <token>".
NoToken == [sig |-> None, exp |-> 0, role |-> None]

AuthHeaders ==
  { [scheme |-> None,     token |-> NoToken],
    [scheme |-> "Basic",  token |-> NoToken] }
  \cup { [scheme |-> "Bearer", token |-> tk] : tk \in Tokens }

NoHeader == [scheme |-> None, token |-> NoToken]

\* header names in the spellings a client may send them
ClientHeaderNames ==
  { "host", "Connection", "CONTENT-LENGTH", "x-forwarded-by", "Accept" }

\* header names in the spellings an upstream may send them
UpstreamHeaderNames ==
  { "Content-Encoding", "content-length", "Transfer-Encoding", "CONNECTION",
    "Content-Type", "X-Trace" }

\* the value sent under a name
HeaderValue(k) ==
  CASE k = "host"              -> "gateway:5000"
    [] k = "Connection"        -> "keep-alive"
    [] k = "CONTENT-LENGTH"    -> "12"
    [] k = "x-forwarded-by"    -> "someone-else"
    [] k = "Accept"            -> "application/json"
    [] k = "Content-Encoding"  -> "gzip"
    [] k = "content-length"    -> "17"
    [] k = "Transfer-Encoding" -> "chunked"
    [] k = "CONNECTION"        -> "close"
    [] k = "Content-Type"      -> "application/json"
    [] k = "X-Trace"           -> "abc"

\* sets of headers, each a pair << name, value >>
HeaderSets(names) == { { << k, HeaderValue(k) >> : k \in S } : S \in SUBSET names }

\* the headers of a request that sends nothing of interest
PlainHeaders == { << "host", HeaderValue("host") >> }

\* the headers of an upstream answer that sends nothing of interest
PlainUpstreamHeaders ==
  { << "Content-Type", HeaderValue("Content-Type") >>,
    << "content-length", HeaderValue("content-length") >> }

Requests ==
  [ip : IPs, method : Methods, path : Paths, auth : AuthHeaders,
   headers : HeaderSets(ClientHeaderNames)]

NoRequest ==
  [ip |-> None, method |-> None, path |-> <<>>, auth |-> NoHeader,
   headers |-> {}]

NoResponse == [status |-> 0, body |-> None]

NoDeque == <<>>

\* the JSON body of a login request; email or password may be missing
LoginBodies ==
  [email : { "admin@devpulse.io", "alice@devpulse.io", "mallory@devpulse.io",
             None },
   password : { "password123", "letmein", None }]

\* a login request without a JSON body
NoBody == [email |-> "no-body", password |-> "no-body"]

NoLoginResponse == [status |-> 0, body |-> None, token |-> NoToken]

\* the JSON body of POST /users; name or email may be missing
UserBodies ==
  [name : { "Ada", None }, email : { "ada@devpulse.io", "bob@devpulse.io", None }]

\* a POST /users without a JSON body
NoUserBody == [name |-> "no-body", email |-> "no-body"]

\* a response of the user service: the handler, the status, the id asked
\* for or created (0: none) and the ids of the users in the body
NoUserResponse == [op |-> None, status |-> 0, id |-> 0, ids |-> {}]

NoTarget == [url |-> None, path |-> <<>>]

VARIABLES
  now,          \* the clock read by time.time() and by jwt.decode
  ip_trackers,  \* dict ip -> deque (the deque's identity)
  deques,       \* the deque objects: identity -> sequence of timestamps
  pc,           \* per thread: position in the handler
  req,          \* per thread: the request being handled
  lnow,         \* per thread: local variable now of _check_rate_limit
  tracker,      \* per thread: local variable tracker of _check_rate_limit
  target,       \* per thread: arguments upstream_url, path of _proxy
  stages,       \* per thread: the stages the current request went through
  calls,        \* per thread: outbound calls made for the current request
  results,      \* per thread: local variable results of health
  resp,         \* per thread: the response returned for the current request
  nresp,        \* per thread: number of responses produced for the request
  admitted,     \* history: per ip, the timestamps of the admitted requests
  denied,       \* history: per ip, the timestamps of the requests that were
                \* admitted and then rejected by the auth check
  inflight,     \* per thread: the upstream health is waiting for (0: none)
  redis_client, \* notification-service: the global _redis_client
  redis_up,     \* notification-service: whether Redis answers a ping
  rpc,          \* notification-service: position in get_redis
  attempts,     \* notification-service: local variable attempts of get_redis
  waits,        \* notification-service: the sleeps of the current call
  rresult,      \* notification-service: what the last call returned
  rcalls,       \* notification-service: number of calls of get_redis made
  pings,        \* notification-service: connection attempts of the current call
  same_secret,  \* auth-service and gateway are given the same JWT_SECRET
  held,         \* auth-service: the token of the last successful login
  issued_at,    \* auth-service: the time of that login
  login_resp,   \* auth-service: the response of the last login
  login_body,   \* auth-service: the JSON body of the last login request
  frac,         \* the clock's part below the second, in ticks
  db_up,        \* user-service: whether PostgreSQL can be reached
  db_conn,      \* user-service: the global db_conn
  db_rows,      \* user-service: the rows of table users
  MEM_USERS,    \* user-service: the in-memory fallback
  next_uid,     \* user-service: the next value of uuid.uuid4()
  created,      \* history: the ids create_user returned with 201
  uresp,        \* user-service: the last response
  resp_headers  \* per thread: the headers _proxy copied into its response

\* the state of the notification service
redisVars ==
  << redis_client, redis_up, rpc, attempts, waits, rresult, rcalls, pings >>

\* the state of the auth service, with the token its client holds
loginVars == << same_secret, held, issued_at, login_resp, login_body, frac >>

\* what the gateway's handlers never touch
\* the state of the user service
userVars ==
  << db_up, db_conn, db_rows, MEM_USERS, next_uid, created, uresp >>

other == << redisVars, loginVars, userVars >>

\* what only the dispatch touches
fwdVars == << resp_headers >>

vars ==
  << now, ip_trackers, deques, pc, req, lnow, tracker, target, stages,
     calls, results, resp, nresp, admitted, denied, inflight, other,
     fwdVars >>

InitBase ==
  /\ now = 0
  /\ ip_trackers = [i \in {} |-> NoDeque]
  /\ deques = [d \in {} |-> <<>>]
  /\ pc = [t \in Threads |-> "idle"]
  /\ req = [t \in Threads |-> NoRequest]
  /\ lnow = [t \in Threads |-> 0]
  /\ tracker = [t \in Threads |-> NoDeque]
  /\ target = [t \in Threads |-> NoTarget]
  /\ stages = [t \in Threads |-> <<>>]
  /\ calls = [t \in Threads |-> <<>>]
  /\ results = [t \in Threads |-> <<>>]
  /\ resp = [t \in Threads |-> NoResponse]
  /\ nresp = [t \in Threads |-> 0]
  /\ admitted = [i \in IPs |-> <<>>]
  /\ denied = [i \in IPs |-> <<>>]
  /\ inflight = [t \in Threads |-> 0]
  /\ resp_headers = [t \in Threads |-> {}]
  /\ redis_client = None
  /\ redis_up = FALSE
  /\ rpc = "idle"
  /\ attempts = 0
  /\ waits = <<>>
  /\ rresult = "pending"
  /\ rcalls = 0
  /\ pings = 0
  /\ held = NoToken
  /\ issued_at = 0
  /\ login_resp = NoLoginResponse
  /\ login_body = NoBody
  /\ frac = 0
  /\ db_up = TRUE
  /\ db_conn = None
  /\ db_rows = {}
  /\ MEM_USERS = {}
  /\ next_uid = 1
  /\ created = {}
  /\ uresp = NoUserResponse

\* both services run with the default JWT_SECRET
Init == InitBase /\ same_secret = TRUE

\* the two services started with JWT_SECRET values that agree or not
InitLogin == InitBase /\ same_secret \in BOOLEAN

\* time passes
Tick ==
  /\ now < MaxTime
  /\ now' = now + 1
  /\ UNCHANGED << ip_trackers, deques, pc, req, lnow, tracker, target,
                  stages, calls, results, resp, nresp, admitted >>
  /\ UNCHANGED << denied, inflight, other, fwdVars >>

(***************************************************************************)
(* Configuration and route declarations.                                   *)
(***************************************************************************)
USER_SERVICE_URL == "user-service"

TASK_SERVICE_URL == "task-service"

NOTIFICATION_SERVICE_URL == "notification-service"

AUTH_SERVICE_URL == "auth-service"

METRICS_SERVICE_URL == "metrics-service"

\* the dict SERVICES in insertion order, which is the order health iterates in
SERVICES ==
  << USER_SERVICE_URL, TASK_SERVICE_URL, NOTIFICATION_SERVICE_URL,
     AUTH_SERVICE_URL, METRICS_SERVICE_URL >>

\* The @app.route declarations.  sub = TRUE is the "<path:p>" form, which
\* matches one or more further segments.
Routes ==
  { [prefix |-> <<>>,                sub |-> FALSE, methods |-> {"GET"},
     endpoint |-> "root"],
    [prefix |-> <<"health">>,        sub |-> FALSE, methods |-> {"GET"},
     endpoint |-> "health"],
    [prefix |-> <<"auth", "login">>, sub |-> FALSE, methods |-> {"POST"},
     endpoint |-> "login_proxy"],
    [prefix |-> <<"users">>,         sub |-> FALSE, methods |-> {"GET", "POST"},
     endpoint |-> "user_proxy"],
    [prefix |-> <<"users">>,         sub |-> TRUE,
     methods |-> {"GET", "POST", "PUT", "DELETE"}, endpoint |-> "user_proxy"],
    [prefix |-> <<"tasks">>,         sub |-> FALSE, methods |-> {"GET", "POST"},
     endpoint |-> "task_proxy"],
    [prefix |-> <<"tasks">>,         sub |-> TRUE,
     methods |-> {"GET", "POST", "PUT", "DELETE"}, endpoint |-> "task_proxy"],
    [prefix |-> <<"notifications">>, sub |-> FALSE, methods |-> {"GET", "POST"},
     endpoint |-> "notif_proxy"],
    [prefix |-> <<"notifications">>, sub |-> TRUE,
     methods |-> {"GET", "POST", "PUT", "DELETE"}, endpoint |-> "notif_proxy"],
    [prefix |-> <<"metrics">>,       sub |-> FALSE, methods |-> {"GET"},
     endpoint |-> "metrics_proxy"] }

\* does the rule match the path (the whole path, as the URL map does)
Matches(rule, path) ==
  IF rule.sub
    THEN /\ Len(path) > Len(rule.prefix)
         /\ SubSeq(path, 1, Len(rule.prefix)) = rule.prefix
    ELSE path = rule.prefix

\* methods a rule answers: the declared ones, and HEAD wherever GET is declared
AllowedMethods(rule) ==
  rule.methods \cup (IF "GET" \in rule.methods THEN {"HEAD"} ELSE {})

\* URL dispatch with the methods= arguments left out of the declarations:
\* a matching rule answers every method
ResolveAnyMethod(method, path) ==
  LET matching == { r \in Routes : Matches(r, path) }
  IN  IF matching = {} THEN "404"
      ELSE IF method = "OPTIONS" THEN "options"
      ELSE (CHOOSE r \in matching : TRUE).endpoint

\* URL dispatch of the application: the endpoint of the view to call, or the
\* 404 / 405 / automatic OPTIONS reply given without calling any view
Resolve(method, path) ==
  LET matching == { r \in Routes : Matches(r, path) }
      allowed == { r \in matching : method \in AllowedMethods(r) }
  IN  IF matching = {} THEN "404"
      ELSE IF method = "OPTIONS" THEN "options"
      ELSE IF allowed = {} THEN "405"
      ELSE (CHOOSE r \in allowed : TRUE).endpoint

\* the arguments the proxy views pass to _proxy
ProxyTarget(endpoint, path) ==
  CASE endpoint = "login_proxy"   -> [url |-> AUTH_SERVICE_URL, path |-> <<"login">>]
    [] endpoint = "user_proxy"    -> [url |-> USER_SERVICE_URL, path |-> path]
    [] endpoint = "task_proxy"    -> [url |-> TASK_SERVICE_URL, path |-> path]
    [] endpoint = "notif_proxy"   -> [url |-> NOTIFICATION_SERVICE_URL, path |-> path]
    [] endpoint = "metrics_proxy" -> [url |-> METRICS_SERVICE_URL, path |-> <<"metrics">>]
    [] OTHER                      -> NoTarget

(***************************************************************************)
(* Response bodies.                                                        *)
(***************************************************************************)
TooManyBody == "{\"status\":\"error\",\"message\":\"Too many requests\"}"

UnauthorizedBody == "{\"status\":\"error\",\"message\":\"Unauthorized\"}"

UnreachableBody == "{\"status\":\"error\",\"message\":\"Upstream service unreachable\"}"

\* reply to the current request of thread t
Reply(t, status, body) ==
  /\ resp' = [resp EXCEPT ![t] = [status |-> status, body |-> body]]
  /\ nresp' = [nresp EXCEPT ![t] = @ + 1]
  /\ pc' = [pc EXCEPT ![t] = "done"]

(***************************************************************************)
(* A request arrives at a free worker.                                     *)
(***************************************************************************)
Arrive(t, r) ==
  /\ pc[t] = "idle"
  /\ req' = [req EXCEPT ![t] = r]
  /\ pc' = [pc EXCEPT ![t] = "route"]
  /\ UNCHANGED << now, ip_trackers, deques, lnow, tracker, target, stages,
                  calls, results, resp, nresp, admitted >>
  /\ UNCHANGED << denied, inflight, other, fwdVars >>

\* the response has been sent: the request context and the handler's locals
\* are discarded and the worker is free again
Finish(t) ==
  /\ pc[t] = "done"
  /\ pc' = [pc EXCEPT ![t] = "idle"]
  /\ req' = [req EXCEPT ![t] = NoRequest]
  /\ lnow' = [lnow EXCEPT ![t] = 0]
  /\ tracker' = [tracker EXCEPT ![t] = NoDeque]
  /\ target' = [target EXCEPT ![t] = NoTarget]
  /\ stages' = [stages EXCEPT ![t] = <<>>]
  /\ calls' = [calls EXCEPT ![t] = <<>>]
  /\ results' = [results EXCEPT ![t] = <<>>]
  /\ resp' = [resp EXCEPT ![t] = NoResponse]
  /\ nresp' = [nresp EXCEPT ![t] = 0]
  /\ resp_headers' = [resp_headers EXCEPT ![t] = {}]
  /\ UNCHANGED << now, ip_trackers, deques, admitted >>
  /\ UNCHANGED << denied, inflight, other >>

\* URL dispatch: 404 and 405 are answered here; otherwise the view is entered
Route(t) ==
  /\ pc[t] = "route"
  /\ stages' = [stages EXCEPT ![t] = Append(@, "routing")]
  /\ LET e == Resolve(req[t].method, req[t].path)
     IN  CASE e = "404" ->
                /\ Reply(t, 404, "Not Found")
                /\ UNCHANGED target
           [] e = "405" ->
                /\ Reply(t, 405, "Method Not Allowed")
                /\ UNCHANGED target
           [] e = "options" ->
                /\ Reply(t, 200, "")
                /\ UNCHANGED target
           [] e = "root" ->
                /\ Reply(t, 200, "root_info")
                /\ UNCHANGED target
           [] e = "health" ->
                /\ pc' = [pc EXCEPT ![t] = "health"]
                /\ UNCHANGED << target, resp, nresp >>
           [] OTHER ->
                /\ pc' = [pc EXCEPT ![t] = "rl55"]
                /\ target' = [target EXCEPT ![t] = ProxyTarget(e, req[t].path)]
                /\ UNCHANGED << resp, nresp >>
  /\ UNCHANGED << now, ip_trackers, deques, req, lnow, tracker, calls,
                  results, admitted >>
  /\ UNCHANGED << denied, inflight, other, fwdVars >>

(***************************************************************************)
(* _check_rate_limit, one action per statement.  The dict and the deques   *)
(* are shared by all threads; ip, now and tracker are locals.              *)
(***************************************************************************)
\* lines 55-56: ip = request.remote_addr; now = time.time()
RlReadNow(t) ==
  /\ pc[t] = "rl55"
  /\ stages' = [stages EXCEPT ![t] = Append(@, "admission")]
  /\ lnow' = [lnow EXCEPT ![t] = now]
  /\ pc' = [pc EXCEPT ![t] = "rl57"]
  /\ UNCHANGED << now, ip_trackers, deques, req, tracker, target, calls,
                  results, resp, nresp, admitted >>
  /\ UNCHANGED << denied, inflight, other, fwdVars >>

\* line 57: if ip not in ip_trackers
RlTestKnown(t) ==
  /\ pc[t] = "rl57"
  /\ pc' = [pc EXCEPT ![t] =
              IF req[t].ip \notin DOMAIN ip_trackers THEN "rl58" ELSE "rl60"]
  /\ UNCHANGED << now, ip_trackers, deques, req, lnow, tracker, target,
                  stages, calls, results, resp, nresp, admitted >>
  /\ UNCHANGED << denied, inflight, other, fwdVars >>

\* line 58: ip_trackers[ip] = deque()
RlCreate(t) ==
  /\ pc[t] = "rl58"
  /\ LET d == << t, req[t].ip >>
     IN  /\ deques' = [x \in DOMAIN deques \cup {d} |->
                         IF x = d THEN <<>> ELSE deques[x]]
         /\ ip_trackers' = [i \in DOMAIN ip_trackers \cup {req[t].ip} |->
                              IF i = req[t].ip THEN d ELSE ip_trackers[i]]
  /\ pc' = [pc EXCEPT ![t] = "rl60"]
  /\ UNCHANGED << now, req, lnow, tracker, target, stages, calls, results,
                  resp, nresp, admitted >>
  /\ UNCHANGED << denied, inflight, other, fwdVars >>

\* line 60: tracker = ip_trackers[ip]
RlLookup(t) ==
  /\ pc[t] = "rl60"
  /\ tracker' = [tracker EXCEPT ![t] = ip_trackers[req[t].ip]]
  /\ pc' = [pc EXCEPT ![t] = "rl61"]
  /\ UNCHANGED << now, ip_trackers, deques, req, lnow, target, stages,
                  calls, results, resp, nresp, admitted >>
  /\ UNCHANGED << denied, inflight, other, fwdVars >>

\* the comparison of line 61 with the window taken in minutes
IsOldMinutes(ts, nw) == ts < nw - RATE_LIMIT_WINDOW * 60

\* the comparison of line 61: the timestamp has left the window
IsOld(ts, nw) == ts < nw - RATE_LIMIT_WINDOW

\* line 61: while tracker and tracker[0] < now - RATE_LIMIT_WINDOW
RlTestOld(t) ==
  /\ pc[t] = "rl61"
  /\ LET q == deques[tracker[t]]
     IN  pc' = [pc EXCEPT ![t] =
                  IF q # <<>> /\ IsOld(Head(q), lnow[t])
                    THEN "rl62" ELSE "rl64"]
  /\ UNCHANGED << now, ip_trackers, deques, req, lnow, tracker, target,
                  stages, calls, results, resp, nresp, admitted >>
  /\ UNCHANGED << denied, inflight, other, fwdVars >>

\* lines 61-62 with if in place of while: one entry is purged at most
RlPopleftOnce(t) ==
  /\ pc[t] = "rl62"
  /\ LET q == deques[tracker[t]]
     IN  IF q = <<>>
           THEN /\ Reply(t, 500, "Internal Server Error")
                /\ UNCHANGED deques
           ELSE /\ deques' = [deques EXCEPT ![tracker[t]] = Tail(q)]
                /\ pc' = [pc EXCEPT ![t] = "rl64"]
                /\ UNCHANGED << resp, nresp >>
  /\ UNCHANGED << now, ip_trackers, req, lnow, tracker, target, stages,
                  calls, results, admitted >>
  /\ UNCHANGED << denied, inflight, other, fwdVars >>

\* line 62: tracker.popleft(); on an empty deque it raises IndexError, which
\* no handler catches, and the request ends with a 500
RlPopleft(t) ==
  /\ pc[t] = "rl62"
  /\ LET q == deques[tracker[t]]
     IN  IF q = <<>>
           THEN /\ Reply(t, 500, "Internal Server Error")
                /\ UNCHANGED deques
           ELSE /\ deques' = [deques EXCEPT ![tracker[t]] = Tail(q)]
                /\ pc' = [pc EXCEPT ![t] = "rl61"]
                /\ UNCHANGED << resp, nresp >>
  /\ UNCHANGED << now, ip_trackers, req, lnow, tracker, target, stages,
                  calls, results, admitted >>
  /\ UNCHANGED << denied, inflight, other, fwdVars >>

\* the test of line 64 written with > : one request too many passes
LimitReachedOffByOne(q) == Len(q) > RATE_LIMIT_MAX

\* the test of line 64
LimitReached(q) == Len(q) >= RATE_LIMIT_MAX

\* lines 64-66 with the rejected request recorded as well
RlTestFullRecording(t) ==
  /\ pc[t] = "rl64"
  /\ IF LimitReached(deques[tracker[t]])
       THEN /\ Reply(t, 429, TooManyBody)
            /\ deques' = [deques EXCEPT ![tracker[t]] = Append(@, lnow[t])]
       ELSE /\ pc' = [pc EXCEPT ![t] = "rl68"]
            /\ UNCHANGED << resp, nresp, deques >>
  /\ UNCHANGED << now, ip_trackers, req, lnow, tracker, target,
                  stages, calls, results, admitted >>
  /\ UNCHANGED << denied, inflight, other, fwdVars >>

\* lines 64-66 and 96: if len(tracker) >= RATE_LIMIT_MAX: return False, upon
\* which _proxy answers 429
RlTestFull(t) ==
  /\ pc[t] = "rl64"
  /\ IF LimitReached(deques[tracker[t]])
       THEN Reply(t, 429, TooManyBody)
       ELSE /\ pc' = [pc EXCEPT ![t] = "rl68"]
            /\ UNCHANGED << resp, nresp >>
  /\ UNCHANGED << now, ip_trackers, deques, req, lnow, tracker, target,
                  stages, calls, results, admitted >>
  /\ UNCHANGED << denied, inflight, other, fwdVars >>

\* the timestamp recorded only for requests that carry an Authorization
\* header
RlAppendAuthorized(t) ==
  /\ pc[t] = "rl68"
  /\ deques' = [deques EXCEPT ![tracker[t]] =
                  IF req[t].auth # NoHeader
                    THEN Append(@, lnow[t]) ELSE @]
  /\ admitted' = [admitted EXCEPT ![req[t].ip] = Append(@, lnow[t])]
  /\ pc' = [pc EXCEPT ![t] = "auth"]
  /\ UNCHANGED << now, ip_trackers, req, lnow, tracker, target, stages,
                  calls, results, resp, nresp >>
  /\ UNCHANGED << denied, inflight, other, fwdVars >>

\* lines 68-69: tracker.append(now); return True
RlAppend(t) ==
  /\ pc[t] = "rl68"
  /\ deques' = [deques EXCEPT ![tracker[t]] = Append(@, lnow[t])]
  /\ admitted' = [admitted EXCEPT ![req[t].ip] = Append(@, lnow[t])]
  /\ pc' = [pc EXCEPT ![t] = "auth"]
  /\ UNCHANGED << now, ip_trackers, req, lnow, tracker, target, stages,
                  calls, results, resp, nresp >>
  /\ UNCHANGED << denied, inflight, other, fwdVars >>

(***************************************************************************)
(* _validate_auth                                                          *)
(***************************************************************************)
\* the list of line 76 without "/metrics"
PublicPathsNoMetrics == { <<>>, <<"health">>, <<"auth", "login">> }

\* the list of line 76
PublicPaths == { <<>>, <<"health">>, <<"metrics">>, <<"auth", "login">> }

\* line 76 written with startswith: a path below a public path is public
IsPublicPrefix(path) ==
  \E p \in PublicPaths :
    Len(p) <= Len(path) /\ SubSeq(path, 1, Len(p)) = p

\* line 76: request.path in [...]
IsPublic(path) == path \in PublicPaths

\* jwt.decode that checks the signature only (verify_exp switched off)
JwtDecodesNoExp(token, clock) == token.sig = "good"

\* jwt.decode(token, JWT_SECRET, algorithms=["HS256"]) returns normally:
\* the signature verifies and the exp claim has not been reached
JwtDecodes(token, clock) ==
  /\ token.sig = "good"
  /\ token.exp > clock

\* the value _validate_auth returns
ValidateAuth(path, auth, clock) ==
  IF IsPublic(path) THEN TRUE
  ELSE IF auth.scheme # "Bearer" THEN FALSE
  ELSE JwtDecodes(auth.token, clock)

\* _proxy sending the outbound request before it looks at the result of
\* _validate_auth
AuthAfterCall(t) ==
  /\ pc[t] = "auth"
  /\ stages' = [stages EXCEPT ![t] = Append(@, "authorization")]
  /\ IF ValidateAuth(req[t].path, req[t].auth, now)
       THEN /\ pc' = [pc EXCEPT ![t] = "dispatch"]
            /\ UNCHANGED << resp, nresp, calls, denied >>
       ELSE /\ calls' = [calls EXCEPT ![t] =
                           Append(@, [url |-> target[t].url,
                                      path |-> target[t].path,
                                      method |-> req[t].method,
                                      result |-> "response",
                                      code |-> 200,
                                      status_field |-> None,
                                      headers |-> {},
                                      auth |-> req[t].auth,
                                      body |-> None,
                                      resp_headers |-> {}])]
            /\ denied' = [denied EXCEPT ![req[t].ip] = Append(@, lnow[t])]
            /\ Reply(t, 401, UnauthorizedBody)
  /\ UNCHANGED << now, ip_trackers, deques, req, lnow, tracker, target,
                  results, admitted >>
  /\ UNCHANGED << inflight, other, fwdVars >>

\* lines 98-99: if not _validate_auth(): return 401.  denied keeps the
\* timestamps under which the requests answered 401 were recorded.
Auth(t) ==
  /\ pc[t] = "auth"
  /\ stages' = [stages EXCEPT ![t] = Append(@, "authorization")]
  /\ IF ValidateAuth(req[t].path, req[t].auth, now)
       THEN /\ pc' = [pc EXCEPT ![t] = "dispatch"]
            /\ UNCHANGED << resp, nresp, denied >>
       ELSE /\ Reply(t, 401, UnauthorizedBody)
            /\ denied' = [denied EXCEPT ![req[t].ip] = Append(@, lnow[t])]
  /\ UNCHANGED << now, ip_trackers, deques, req, lnow, tracker, target,
                  calls, results, admitted >>
  /\ UNCHANGED << inflight, other, fwdVars >>

(***************************************************************************)
(* Dispatch: lines 101-114 of _proxy                                       *)
(***************************************************************************)
\* str.lower() on the header names
Lower(k) ==
  CASE k \in { "host", "Host" }                              -> "host"
    [] k \in { "Connection", "CONNECTION" }                  -> "connection"
    [] k \in { "CONTENT-LENGTH", "Content-Length", "content-length" }
                                                             -> "content-length"
    [] k \in { "x-forwarded-by", "X-Forwarded-By" }          -> "x-forwarded-by"
    [] k = "Accept"                                          -> "accept"
    [] k = "Content-Encoding"                                -> "content-encoding"
    [] k = "Transfer-Encoding"                               -> "transfer-encoding"
    [] k = "Content-Type"                                    -> "content-type"
    [] k = "X-Trace"                                         -> "x-trace"

\* the name under which request.headers yields a header a client sent: the
\* WSGI environ keeps HTTP_<NAME> and the name is rebuilt from it in title case
EnvironName(k) ==
  CASE Lower(k) = "host"           -> "Host"
    [] Lower(k) = "connection"     -> "Connection"
    [] Lower(k) = "content-length" -> "Content-Length"
    [] Lower(k) = "x-forwarded-by" -> "X-Forwarded-By"
    [] Lower(k) = "accept"         -> "Accept"

\* line 103: iterating request.headers
RequestHeaders(r) == { << EnvironName(h[1]), h[2] >> : h \in r.headers }

\* line 103: the names that are not forwarded
StrippedRequestHeaders == { "host", "connection", "content-length" }

\* lines 103-104 with the names compared as they are spelled
OutboundHeadersCaseSensitive(r) ==
  LET kept == { h \in RequestHeaders(r) : h[1] \notin StrippedRequestHeaders }
  IN  { h \in kept : h[1] # "X-Forwarded-By" }
        \cup { << "X-Forwarded-By", "api-gateway" >> }

\* lines 103-104: the dict headers passed to requests.request; the
\* Authorization header, kept apart in the model, passes with the others
OutboundHeaders(r) ==
  LET kept == { h \in RequestHeaders(r) :
                  Lower(h[1]) \notin StrippedRequestHeaders }
  IN  { h \in kept : h[1] # "X-Forwarded-By" }
        \cup { << "X-Forwarded-By", "api-gateway" >> }

\* what requests.request does: it returns the upstream's response, whatever
\* its status, or raises (timeout after 10 s, connection error)
UpstreamFailures ==
  { [kind |-> "timeout", status |-> 0,
     body |-> "ReadTimeout(read timeout=10)", headers |-> {}],
    [kind |-> "connection_error", status |-> 0,
     body |-> "ConnectionError(Max retries exceeded with url)",
     headers |-> {}] }

\* the outcomes the pipeline specification draws from
UpstreamOutcomes ==
  { [kind |-> "response", status |-> 200, body |-> "upstream-ok",
     headers |-> PlainUpstreamHeaders],
    [kind |-> "response", status |-> 401, body |-> "upstream-denied",
     headers |-> PlainUpstreamHeaders],
    [kind |-> "response", status |-> 500, body |-> "upstream-error",
     headers |-> PlainUpstreamHeaders] }
  \cup UpstreamFailures

\* answers of every class of status, with every combination of headers
AllUpstreamOutcomes ==
  { [kind |-> "response", status |-> c, body |-> "upstream-body",
     headers |-> H] :
      c \in { 200, 404, 503 }, H \in HeaderSets(UpstreamHeaderNames) }
  \cup UpstreamFailures

\* _proxy putting the text of the exception into the 502 body
ProxyResponseLeak(o) ==
  IF o.kind = "response"
    THEN [status |-> o.status, body |-> o.body]
    ELSE [status |-> 502, body |-> o.body]

\* lines 111 and 114: status and body of the response _proxy returns for an
\* outcome of the outbound call
ProxyResponse(o) ==
  IF o.kind = "response"
    THEN [status |-> o.status, body |-> o.body]
    ELSE [status |-> 502, body |-> UnreachableBody]

\* line 109
excluded_headers ==
  { "content-encoding", "content-length", "transfer-encoding", "connection" }

\* line 110 with the names compared as they are spelled
ResponseHeadersCaseSensitive(o) ==
  IF o.kind = "response"
    THEN { h \in o.headers : h[1] \notin excluded_headers }
    ELSE {}

\* line 110: the upstream's headers _proxy copies into its response
ResponseHeaders(o) ==
  IF o.kind = "response"
    THEN { h \in o.headers : Lower(h[1]) \notin excluded_headers }
    ELSE {}

\* lines 101-114: the outbound call and the response made of its outcome;
\* the call is logged with what was sent and what came back
Dispatch(t, o) ==
  /\ pc[t] = "dispatch"
  /\ stages' = [stages EXCEPT ![t] = Append(@, "dispatch")]
  /\ calls' = [calls EXCEPT ![t] =
                 Append(@, [url |-> target[t].url, path |-> target[t].path,
                            method |-> req[t].method, result |-> o.kind,
                            code |-> o.status, status_field |-> None,
                            headers |-> OutboundHeaders(req[t]),
                            auth |-> req[t].auth,
                            body |-> o.body,
                            resp_headers |-> o.headers])]
  /\ Reply(t, ProxyResponse(o).status, ProxyResponse(o).body)
  /\ resp_headers' = [resp_headers EXCEPT ![t] = ResponseHeaders(o)]
  /\ UNCHANGED << now, ip_trackers, deques, req, lnow, tracker, target,
                  results, admitted >>
  /\ UNCHANGED << denied, inflight, other >>

(***************************************************************************)
(* health: lines 118-133                                                   *)
(***************************************************************************)
\* what requests.get(url + "/health", timeout=2) followed by r.json() gives:
\* a body that parses to a JSON object, with or without a status field and
\* under any status code; a body that parses to something else or does not
\* parse; or an exception of requests.get
AllProbeOutcomes ==
  { [kind |-> "json", code |-> 200, status |-> "healthy"],
    [kind |-> "json", code |-> 200, status |-> "degraded"],
    [kind |-> "json", code |-> 200, status |-> None],
    [kind |-> "json", code |-> 503, status |-> "degraded"],
    [kind |-> "json", code |-> 500, status |-> "error"],
    [kind |-> "not_object", code |-> 200, status |-> None],
    [kind |-> "malformed", code |-> 200, status |-> None],
    [kind |-> "timeout", code |-> 0, status |-> None],
    [kind |-> "connection_error", code |-> 0, status |-> None] }

\* the two outcomes the pipeline specification draws from
ProbeOutcomes ==
  { o \in AllProbeOutcomes :
      \/ o.kind = "json" /\ o.code = 200 /\ o.status = "healthy"
      \/ o.kind = "timeout" }

\* lines 122-126, with the status code looked at before the body
ProbeStatusChecked(o) ==
  IF o.kind = "json" /\ o.code \in 200..299
    THEN (IF o.status = None THEN "unknown" ELSE o.status)
    ELSE "unreachable"

\* lines 122-126: the entry results[name]
ProbeStatus(o) ==
  IF o.kind = "json"
    THEN (IF o.status = None THEN "unknown" ELSE o.status)
    ELSE "unreachable"

\* line 123: requests.get is called for the next upstream of the loop; the
\* handler then waits for it
HealthSend(t) ==
  /\ pc[t] = "health"
  /\ inflight[t] = 0
  /\ Len(results[t]) < Len(SERVICES)
  /\ inflight' = [inflight EXCEPT ![t] = Len(results[t]) + 1]
  /\ calls' = [calls EXCEPT ![t] =
                 Append(@, [url |-> SERVICES[Len(results[t]) + 1],
                            path |-> <<"health">>, method |-> "GET",
                            result |-> "pending", code |-> 0,
                            status_field |-> None, headers |-> {},
                            auth |-> NoHeader, body |-> None,
                            resp_headers |-> {}])]
  /\ UNCHANGED << now, ip_trackers, deques, pc, req, lnow, tracker, target,
                  stages, results, resp, nresp, admitted >>
  /\ UNCHANGED << denied, other, fwdVars >>

\* lines 123-126: requests.get returns or raises, and results[name] is set
HealthRecv(t, o) ==
  /\ pc[t] = "health"
  /\ inflight[t] # 0
  /\ calls' = [calls EXCEPT ![t][inflight[t]].result = o.kind,
                            ![t][inflight[t]].code = o.code,
                            ![t][inflight[t]].status_field = o.status]
  /\ results' = [results EXCEPT ![t] = Append(@, ProbeStatus(o))]
  /\ inflight' = [inflight EXCEPT ![t] = 0]
  /\ UNCHANGED << now, ip_trackers, deques, pc, req, lnow, tracker, target,
                  stages, resp, nresp, admitted >>
  /\ UNCHANGED << denied, other, fwdVars >>

\* line 128 written with any
AnyOk(rs) == \E i \in 1..Len(rs) : rs[i] = "healthy"

\* line 128
AllOk(rs) == \A i \in 1..Len(rs) : rs[i] = "healthy"

\* lines 128-133
HealthReply(t) ==
  /\ pc[t] = "health"
  /\ Len(results[t]) = Len(SERVICES)
  /\ IF AllOk(results[t])
       THEN Reply(t, 200, "healthy")
       ELSE Reply(t, 503, "degraded")
  /\ UNCHANGED << now, ip_trackers, deques, req, lnow, tracker, target,
                  stages, calls, results, admitted >>
  /\ UNCHANGED << denied, inflight, other, fwdVars >>

(***************************************************************************)
(* notification-service: get_redis, lines 33-54                            *)
(***************************************************************************)
\* everything but the state of the notification service
gatewayVars ==
  << now, ip_trackers, deques, pc, req, lnow, tracker, target, stages,
     calls, results, resp, nresp, admitted, denied, inflight, loginVars,
     fwdVars, userVars >>

\* line 38
max_retries == 5

RECURSIVE Pow2(_)
Pow2(n) == IF n = 0 THEN 1 ELSE 2 * Pow2(n - 1)

Min(a, b) == IF a <= b THEN a ELSE b

\* line 49 without the cap
WaitUncapped(k) == Pow2(k)

\* line 49: wait = min(2 ** attempts, 10)
Wait(k) == Min(Pow2(k), 10)

\* Redis comes up or goes down
RedisToggle ==
  /\ redis_up' = ~redis_up
  /\ UNCHANGED << redis_client, rpc, attempts, waits, rresult, rcalls, pings >>
  /\ UNCHANGED gatewayVars

\* a handler calls get_redis()
GetRedisCall ==
  /\ rpc = "idle"
  /\ rcalls < MaxCalls
  /\ rcalls' = rcalls + 1
  /\ rpc' = "l35"
  /\ attempts' = 0
  /\ waits' = <<>>
  /\ pings' = 0
  /\ rresult' = "pending"
  /\ UNCHANGED << redis_client, redis_up >>
  /\ UNCHANGED gatewayVars

\* line 35: if _redis_client: return _redis_client
GetRedisCached ==
  /\ rpc = "l35"
  /\ IF redis_client # None
       THEN rpc' = "idle" /\ rresult' = redis_client
       ELSE rpc' = "l39" /\ UNCHANGED rresult
  /\ UNCHANGED << redis_client, redis_up, attempts, waits, rcalls, pings >>
  /\ UNCHANGED gatewayVars

\* line 39: while attempts < max_retries
GetRedisLoop ==
  /\ rpc = "l39"
  /\ rpc' = IF attempts < max_retries THEN "l42" ELSE "l53"
  /\ UNCHANGED << redis_client, redis_up, attempts, waits, rresult, rcalls,
                  pings >>
  /\ UNCHANGED gatewayVars

\* lines 42-46: connect and ping; on success the client is stored and
\* returned, otherwise the exception handler is entered
GetRedisPing ==
  /\ rpc = "l42"
  /\ pings' = pings + 1
  /\ IF redis_up
       THEN /\ redis_client' = "client"
            /\ rresult' = "client"
            /\ rpc' = "idle"
       ELSE /\ rpc' = "l48"
            /\ UNCHANGED << redis_client, rresult >>
  /\ UNCHANGED << redis_up, attempts, waits, rcalls >>
  /\ UNCHANGED gatewayVars

\* lines 48-51: attempts += 1; wait = min(2 ** attempts, 10); sleep(wait)
GetRedisBackoff ==
  /\ rpc = "l48"
  /\ attempts' = attempts + 1
  /\ waits' = Append(waits, Wait(attempts + 1))
  /\ rpc' = "l39"
  /\ UNCHANGED << redis_client, redis_up, rresult, rcalls, pings >>
  /\ UNCHANGED gatewayVars

\* lines 53-54: return None
GetRedisGiveUp ==
  /\ rpc = "l53"
  /\ rresult' = None
  /\ rpc' = "idle"
  /\ UNCHANGED << redis_client, redis_up, attempts, waits, rcalls, pings >>
  /\ UNCHANGED gatewayVars

\* the steps of a call of get_redis
GetRedisStep ==
  \/ GetRedisCached
  \/ GetRedisLoop
  \/ GetRedisPing
  \/ GetRedisBackoff
  \/ GetRedisGiveUp

NextRedis ==
  \/ RedisToggle
  \/ GetRedisCall
  \/ GetRedisStep

\* a call that has started keeps running: every connection attempt returns
\* or raises, and every sleep ends
SpecRedis == Init /\ [][NextRedis]_vars /\ WF_vars(GetRedisStep)

(***************************************************************************)
(* auth-service: login, lines 61-88                                        *)
(***************************************************************************)
\* lines 34-38: the password stored for an email, None for an unknown one
CREDENTIALS(email) ==
  IF email \in { "admin@devpulse.io", "alice@devpulse.io", "raj@devpulse.io" }
    THEN "password123"
    ELSE None

\* the clock in ticks
Clock == now * TicksPerSecond + frac

\* the clock advances by one tick
SubTick ==
  /\ now < MaxTime
  /\ frac' = (frac + 1) % TicksPerSecond
  /\ now' = IF frac + 1 = TicksPerSecond THEN now + 1 ELSE now
  /\ UNCHANGED << same_secret, held, issued_at, login_resp, login_body >>
  /\ UNCHANGED << ip_trackers, deques, pc, req, lnow, tracker, target,
                  stages, calls, results, resp, nresp, admitted, denied,
                  inflight, redisVars, fwdVars, userVars >>

\* line 82 with a lifetime one second too long
TokenExpiryLate(sec) == sec + TokenLifetime + 1

\* lines 82 and 86: exp = now + 1 hour, which jwt.encode writes into the
\* token as a whole number of seconds; sec is the clock without its part
\* below the second
TokenExpiry(sec) == sec + TokenLifetime

\* lines 79-86: the token signed with the auth-service's JWT_SECRET
IssuedToken(email) ==
  [sig |-> IF same_secret THEN "good" ELSE "bad",
   exp |-> TokenExpiry(now),
   role |-> IF email = "admin@devpulse.io" THEN "admin" ELSE "user"]

\* lines 61-88: POST /login
Login(b) ==
  /\ login_body' = b
  /\ IF b = NoBody
       THEN /\ login_resp' = [status |-> 400, body |-> "JSON body required",
                              token |-> NoToken]
            /\ UNCHANGED << held, issued_at >>
       ELSE IF b.email = None \/ b.password = None
       THEN /\ login_resp' = [status |-> 400,
                              body |-> "Email and password required",
                              token |-> NoToken]
            /\ UNCHANGED << held, issued_at >>
       ELSE IF CREDENTIALS(b.email) # b.password
       THEN /\ login_resp' = [status |-> 401, body |-> "Invalid credentials",
                              token |-> NoToken]
            /\ UNCHANGED << held, issued_at >>
       ELSE /\ login_resp' = [status |-> 200, body |-> "success",
                              token |-> IssuedToken(b.email)]
            /\ held' = IssuedToken(b.email)
            /\ issued_at' = Clock
  /\ UNCHANGED << same_secret, frac >>
  /\ UNCHANGED << now, ip_trackers, deques, pc, req, lnow, tracker, target,
                  stages, calls, results, resp, nresp, admitted, denied,
                  inflight, redisVars, fwdVars, userVars >>

\* a request to a protected route with the token of the last login
HeldRequests ==
  { [ip |-> "10.0.0.1", method |-> "GET", path |-> p,
     auth |-> [scheme |-> "Bearer", token |-> held],
     headers |-> PlainHeaders] : p \in { <<"users">>, <<"users", "abc">> } }

\* the client presents the token it was given
ArriveHeld(t) ==
  /\ held # NoToken
  /\ \E r \in HeldRequests : Arrive(t, r)

(***************************************************************************)
(* user-service: get_db, list_users, get_user, create_user                 *)
(***************************************************************************)
\* everything but the state of the user service
notUserVars ==
  << now, ip_trackers, deques, pc, req, lnow, tracker, target, stages,
     calls, results, resp, nresp, admitted, denied, inflight, redisVars,
     loginVars, fwdVars >>

\* PostgreSQL becomes unreachable or reachable again.  Its rows are kept.  A
\* connection that was open when it went away stays a connection object that
\* does not look closed ("stale") and fails at its next use.
DbToggle ==
  /\ db_up' = ~db_up
  /\ db_conn' = IF db_up /\ db_conn = "open" THEN "stale" ELSE db_conn
  /\ UNCHANGED << db_rows, MEM_USERS, next_uid, created, uresp >>
  /\ UNCHANGED notUserVars

\* lines 39-67: db_conn after get_db(); a new connection is made only when
\* there is none or it is closed, and only if PostgreSQL can be reached
ConnAfterGetDb ==
  IF db_conn \in { None, "closed" }
    THEN (IF db_up THEN "open" ELSE db_conn)
    ELSE db_conn

\* lines 39-67: get_db() returned a connection
GotConn == ConnAfterGetDb \in { "open", "stale" }

\* db_conn after the handler used what get_db() returned: the first
\* statement on a stale connection raises and leaves it closed
ConnAfterUse ==
  IF ConnAfterGetDb = "stale" THEN "closed" ELSE ConnAfterGetDb

\* the statement the handler executes succeeds
QueryOk == ConnAfterGetDb = "open"

Ids(users) == { u.id : u \in users }

\* lines 99-117: the users list_users returns
Listed == IF GotConn /\ QueryOk THEN Ids(db_rows) ELSE Ids(MEM_USERS)

\* lines 98-117: GET /users
ListUsers ==
  /\ db_conn' = ConnAfterUse
  /\ uresp' = [op |-> "list", status |-> 200, id |-> 0, ids |-> Listed]
  /\ UNCHANGED << db_up, db_rows, MEM_USERS, next_uid, created >>
  /\ UNCHANGED notUserVars

\* lines 122-139: get_user finds the user
Found(id) ==
  \/ GotConn /\ QueryOk /\ id \in Ids(db_rows)
  \/ id \in Ids(MEM_USERS)

\* lines 120-139: GET /users/<user_id>
GetUser(id) ==
  /\ db_conn' = ConnAfterUse
  /\ uresp' = IF Found(id)
                THEN [op |-> "get", status |-> 200, id |-> id, ids |-> {id}]
                ELSE [op |-> "get", status |-> 404, id |-> id, ids |-> {}]
  /\ UNCHANGED << db_up, db_rows, MEM_USERS, next_uid, created >>
  /\ UNCHANGED notUserVars

\* lines 173-176: the user goes into MEM_USERS and 201 is returned
CreateInMemory(b) ==
  /\ MEM_USERS' = MEM_USERS \cup { [id |-> next_uid, email |-> b.email] }
  /\ created' = created \cup { next_uid }
  /\ next_uid' = next_uid + 1
  /\ uresp' = [op |-> "create", status |-> 201, id |-> next_uid,
               ids |-> { next_uid }]
  /\ UNCHANGED db_rows

\* lines 142-176: POST /users.  rollback_raises is what conn.rollback() of
\* line 171 does on the connection whose statement has just failed.
CreateUser(b, rollback_raises) ==
  /\ next_uid <= MaxUsers
  /\ IF b = NoUserBody \/ b.name = None \/ b.email = None
       THEN /\ uresp' = [op |-> "create", status |-> 400, id |-> 0, ids |-> {}]
            /\ UNCHANGED << db_conn, db_rows, MEM_USERS, next_uid, created >>
       ELSE /\ db_conn' = ConnAfterUse
            /\ IF GotConn /\ QueryOk
                 THEN IF \E u \in db_rows : u.email = b.email
                        THEN /\ uresp' = [op |-> "create", status |-> 409,
                                          id |-> 0, ids |-> {}]
                             /\ UNCHANGED << db_rows, MEM_USERS, next_uid,
                                             created >>
                        ELSE /\ db_rows' = db_rows \cup
                                  { [id |-> next_uid, email |-> b.email] }
                             /\ created' = created \cup { next_uid }
                             /\ next_uid' = next_uid + 1
                             /\ uresp' = [op |-> "create", status |-> 201,
                                          id |-> next_uid,
                                          ids |-> { next_uid }]
                             /\ UNCHANGED MEM_USERS
                 ELSE IF GotConn /\ rollback_raises
                        THEN /\ uresp' = [op |-> "create", status |-> 500,
                                          id |-> 0, ids |-> {}]
                             /\ UNCHANGED << db_rows, MEM_USERS, next_uid,
                                             created >>
                        ELSE CreateInMemory(b)
  /\ UNCHANGED db_up
  /\ UNCHANGED notUserVars

NextUsers ==
  \/ DbToggle
  \/ ListUsers
  \/ \E id \in 1..MaxUsers : GetUser(id)
  \/ \E b \in UserBodies \cup { NoUserBody } :
       \E rollback_raises \in BOOLEAN : CreateUser(b, rollback_raises)

SpecUsers == Init /\ [][NextUsers]_vars

(***************************************************************************)
(* Specifications.                                                         *)
(***************************************************************************)
\* the steps of the proxied pipeline: _proxy and what it calls
ProxyStep(t) ==
  \/ Route(t)
  \/ RlReadNow(t)
  \/ RlTestKnown(t)
  \/ RlCreate(t)
  \/ RlLookup(t)
  \/ RlTestOld(t)
  \/ RlPopleft(t)
  \/ RlTestFull(t)
  \/ RlAppend(t)
  \/ Auth(t)
  \/ Finish(t)

\* The gateway serving one client address, one request after another, over
\* every route, method and Authorization header of the input sets.
PipelineRequests ==
  { r \in Requests : r.ip = "10.0.0.1" /\ r.headers = PlainHeaders }

Next ==
  \/ Tick
  \/ \E t \in SeqThreads :
       \/ \E r \in PipelineRequests : Arrive(t, r)
       \/ ProxyStep(t)
       \/ \E o \in UpstreamOutcomes : Dispatch(t, o)
       \/ HealthSend(t)
       \/ \E o \in ProbeOutcomes : HealthRecv(t, o)
       \/ HealthReply(t)

Spec == Init /\ [][Next]_vars

\* The rate limiter under authorized traffic of several client addresses:
\* GET /users with a valid token, the upstream answering.
GoodToken == [sig |-> "good", exp |-> MaxTime + 1, role |-> "user"]

LimiterRequests ==
  { r \in Requests : /\ r.method = "GET"
                     /\ r.path = <<"users">>
                     /\ r.auth = [scheme |-> "Bearer", token |-> GoodToken]
                     /\ r.headers = PlainHeaders }

UpstreamOk == { o \in UpstreamOutcomes : o.kind = "response" /\ o.status = 200 }

\* ... handled one after another by a single worker
NextSeq ==
  \/ Tick
  \/ \E t \in SeqThreads :
       \/ \E r \in LimiterRequests : Arrive(t, r)
       \/ ProxyStep(t)
       \/ \E o \in UpstreamOk : Dispatch(t, o)

SpecSeq == Init /\ [][NextSeq]_vars

\* ... of one client address, handled concurrently by the worker threads
ConcRequests == { r \in LimiterRequests : r.ip = "10.0.0.1" }

NextConc ==
  \/ Tick
  \/ \E t \in Threads :
       \/ \E r \in ConcRequests : Arrive(t, r)
       \/ ProxyStep(t)
       \/ \E o \in UpstreamOk : Dispatch(t, o)

SpecConc == Init /\ [][NextConc]_vars

\* GET /health against upstreams that answer in every way AllProbeOutcomes
\* lists
HealthRequests ==
  { r \in Requests : /\ r.ip = "10.0.0.1"
                     /\ r.method = "GET"
                     /\ r.path = <<"health">>
                     /\ r.auth = NoHeader
                     /\ r.headers = PlainHeaders }

NextHealth ==
  \E t \in SeqThreads :
    \/ \E r \in HealthRequests : Arrive(t, r)
    \/ Route(t)
    \/ HealthSend(t)
    \/ \E o \in AllProbeOutcomes : HealthRecv(t, o)
    \/ HealthReply(t)
    \/ Finish(t)

SpecHealth == Init /\ [][NextHealth]_vars

\* Forwarding: GET /users and GET /metrics of one client address with every
\* combination of request headers, the upstream answering with every class
\* of status and every combination of response headers.  The clock stands
\* still, so nothing is ever purged from the window.
FwdRequests ==
  { r \in Requests :
      /\ r.ip = "10.0.0.1"
      /\ r.method = "GET"
      /\ r.path \in { <<"users">>, <<"metrics">> }
      /\ r.auth \in { NoHeader, [scheme |-> "Bearer", token |-> GoodToken] } }

NextFwd ==
  \E t \in SeqThreads :
    \/ \E r \in FwdRequests : Arrive(t, r)
    \/ Route(t)
    \/ RlReadNow(t)
    \/ RlTestKnown(t)
    \/ RlCreate(t)
    \/ RlLookup(t)
    \/ RlTestOld(t)
    \/ RlTestFull(t)
    \/ RlAppend(t)
    \/ Auth(t)
    \/ \E o \in AllUpstreamOutcomes : Dispatch(t, o)
    \/ Finish(t)

SpecFwd == Init /\ [][NextFwd]_vars

\* Logins at the auth-service and requests to protected routes with the
\* token of the last login, on a clock that ticks below the second.
\* a login changes nothing the gateway's handler reads while it serves a
\* request, so it is enough to follow the logins made between the requests
ClientLogin(b) ==
  /\ \A t \in SeqThreads : pc[t] = "idle"
  /\ Login(b)

NextLogin ==
  \/ SubTick
  \/ \E b \in LoginBodies \cup { NoBody } : ClientLogin(b)
  \/ \E t \in SeqThreads :
       \/ ArriveHeld(t)
       \/ ProxyStep(t)
       \/ \E o \in UpstreamOk : Dispatch(t, o)

SpecLogin == InitLogin /\ [][NextLogin]_vars

(***************************************************************************)
(* Properties of the rate limiter.                                         *)
(***************************************************************************)
\* number of entries of a sequence of timestamps that lie in [lo, hi]
CountIn(q, lo, hi) ==
  Cardinality({ i \in 1..Len(q) : lo <= q[i] /\ q[i] <= hi })

\* no interval of length RATE_LIMIT_WINDOW holds more than RATE_LIMIT_MAX
\* admitted requests of the address
WindowBounded(ip) ==
  \A a \in 0..MaxTime :
    CountIn(admitted[ip], a, a + RATE_LIMIT_WINDOW) <= RATE_LIMIT_MAX

\* requests of the address admitted in the window that trails the timestamp
\* the thread took
TrailingAdmitted(t) ==
  CountIn(admitted[req[t].ip], lnow[t] - RATE_LIMIT_WINDOW, lnow[t])

\* the thread's request was rejected by the admission check
Rejected429(t) ==
  /\ pc[t] = "done"
  /\ stages[t] = << "routing", "admission" >>
  /\ resp[t] = [status |-> 429, body |-> TooManyBody]

\* C1: with the admission checks executed one after another, a request is
\* rejected (429) only when RATE_LIMIT_MAX requests of its address were
\* admitted within the trailing window, a request that finds RATE_LIMIT_MAX
\* admitted requests in its trailing window is never let through, and so no
\* interval of the window's length holds more than RATE_LIMIT_MAX admitted
\* requests of one address.
C1_SlidingWindowLimit ==
  /\ \A ip \in IPs : WindowBounded(ip)
  /\ \A t \in SeqThreads :
       /\ Rejected429(t) => TrailingAdmitted(t) >= RATE_LIMIT_MAX
       /\ pc[t] = "rl68" => TrailingAdmitted(t) < RATE_LIMIT_MAX
       /\ (pc[t] = "done" /\ stages[t] = << "routing", "admission" >>)
            => Rejected429(t)

\* the (max+1)th request of a window has been rejected
C1_Witness ==
  \E t \in SeqThreads :
    /\ Rejected429(t)
    /\ TrailingAdmitted(t) = RATE_LIMIT_MAX
    /\ now > 0

\* every timestamp admitted within the last RATE_LIMIT_WINDOW seconds is held
\* by the deque that ip_trackers maps the address to
NoLostTimestamp(ip) ==
  IF ip \in DOMAIN ip_trackers
    THEN \A ts \in (now - RATE_LIMIT_WINDOW)..now :
           CountIn(admitted[ip], ts, ts)
             <= CountIn(deques[ip_trackers[ip]], ts, ts)
    ELSE admitted[ip] = <<>>

\* C2: admission is linearizable per address under concurrent requests: no
\* admitted timestamp is lost and no window holds more than RATE_LIMIT_MAX
\* admitted requests.
C2_Linearizable ==
  \A ip \in IPs : WindowBounded(ip) /\ NoLostTimestamp(ip)

\* the address has made no admitted request within the window that trails
\* the thread's timestamp: its window has fully drained
Drained(t) ==
  \A i \in 1..Len(admitted[req[t].ip]) :
    admitted[req[t].ip][i] < lnow[t] - RATE_LIMIT_WINDOW

\* the thread is in the admission check, its timestamp taken and its own
\* entry not yet recorded, or has been turned away by it
Deciding(t) ==
  /\ stages[t] = << "routing", "admission" >>
  /\ pc[t] \in {"rl57", "rl58", "rl60", "rl61", "rl62", "rl64", "rl68", "done"}

\* C7: a request that arrives when the window of its address has fully
\* drained - more than RATE_LIMIT_WINDOW after the last admitted request -
\* is never turned away, however full the window was before.
C7_DrainedAdmitsAgain ==
  \A t \in SeqThreads : (Deciding(t) /\ Drained(t)) => pc[t] # "done"

\* an address that had used up its limit was admitted again after the drain
C7_Witness ==
  \E ip \in IPs :
    /\ Len(admitted[ip]) = RATE_LIMIT_MAX + 1
    /\ admitted[ip][RATE_LIMIT_MAX] <= admitted[ip][1] + RATE_LIMIT_WINDOW
    /\ admitted[ip][RATE_LIMIT_MAX + 1]
         > admitted[ip][RATE_LIMIT_MAX] + RATE_LIMIT_WINDOW

(***************************************************************************)
(* Properties of the request pipeline.                                     *)
(***************************************************************************)
\* position of a stage in a sequence of stages, 0 when absent
Pos(s, x) ==
  IF \E i \in 1..Len(s) : s[i] = x
    THEN CHOOSE i \in 1..Len(s) : s[i] = x
    ELSE 0

IsPrefix(s, full) ==
  Len(s) <= Len(full) /\ SubSeq(full, 1, Len(s)) = s

Done(t) == pc[t] = "done"

\* the gateway's own rejections
TooMany == [status |-> 429, body |-> TooManyBody]

Unauthorized == [status |-> 401, body |-> UnauthorizedBody]

\* the public paths as the specification lists them: /, /health, /metrics,
\* /auth/login
AllowListed == { <<>>, <<"health">>, <<"metrics">>, <<"auth", "login">> }

\* the interface table of the specification: the method is declared for the
\* path
Declared(method, path) ==
  \/ path \in { <<>>, <<"health">>, <<"metrics">> } /\ method = "GET"
  \/ path = << "auth", "login" >> /\ method = "POST"
  \/ /\ Len(path) = 1
     /\ path[1] \in {"users", "tasks", "notifications"}
     /\ method \in {"GET", "POST"}
  \/ /\ Len(path) >= 2
     /\ path[1] \in {"users", "tasks", "notifications"}
     /\ method \in {"GET", "POST", "PUT", "DELETE"}

KnownPath(path) ==
  \E m \in {"GET", "POST", "PUT", "DELETE"} : Declared(m, path)

\* a declared route that is forwarded to an upstream
Forwarded(method, path) ==
  Declared(method, path) /\ path \notin { <<>>, <<"health">> }

\* C3: the rate-limit check runs before the auth check and both run before
\* the outbound call of a proxied request; a request the gateway rejects
\* with 429 or 401 has caused no outbound call.
C3_ChecksBeforeOutbound ==
  \A t \in SeqThreads :
    LET s == stages[t]
    IN  /\ Pos(s, "authorization") > 0
             => (0 < Pos(s, "admission")
                   /\ Pos(s, "admission") < Pos(s, "authorization"))
        /\ (target[t] # NoTarget /\ calls[t] # <<>>)
             => /\ 0 < Pos(s, "admission")
                /\ Pos(s, "admission") < Pos(s, "authorization")
                /\ Pos(s, "authorization") < Pos(s, "dispatch")
        /\ resp[t] \in {TooMany, Unauthorized} => calls[t] = <<>>

\* a request was rejected with 401 after it had passed the rate limiter, and
\* nothing was sent upstream
C3_Witness ==
  \E t \in SeqThreads :
    /\ Done(t)
    /\ resp[t] = Unauthorized
    /\ stages[t] = << "routing", "admission", "authorization" >>
    /\ calls[t] = <<>>

\* the Authorization header carries a correctly signed token that has not
\* expired at the given time
ValidBearer(auth, clock) ==
  /\ auth.scheme = "Bearer"
  /\ auth.token.sig = "good"
  /\ auth.token.exp > clock

\* C4: at the authorization stage a request to a path off the allow-list
\* passes exactly when its header is "Bearer <token>" with a correctly signed,
\* unexpired token, whatever the role; otherwise it gets 401 with the uniform
\* body and nothing is sent upstream.
C4_AuthorizedIffValidToken ==
  [][ \A t \in SeqThreads :
        (pc[t] = "auth" /\ pc'[t] # "auth" /\ req[t].path \notin AllowListed)
          => IF ValidBearer(req[t].auth, now)
               THEN pc'[t] = "dispatch" /\ resp'[t] = NoResponse
               ELSE /\ pc'[t] = "done"
                    /\ resp'[t] = Unauthorized
                    /\ calls'[t] = <<>> ]_vars

\* a correctly signed but expired token was rejected on a protected path
C4_Witness ==
  \E t \in SeqThreads :
    /\ Done(t)
    /\ req[t].path = << "users", "abc" >>
    /\ req[t].auth.scheme = "Bearer"
    /\ req[t].auth.token.sig = "good"
    /\ resp[t] = Unauthorized
    /\ calls[t] = <<>>

\* the window of the address is full at the present time
ExhaustedNow(ip) ==
  CountIn(admitted[ip], now - RATE_LIMIT_WINDOW, now) >= RATE_LIMIT_MAX

\* the request carries no token that could be valid at any time: no Bearer
\* header, or a token whose signature does not verify
NoValidToken(t) ==
  \/ req[t].auth.scheme # "Bearer"
  \/ req[t].auth.token.sig # "good"

C6_EveryRouteLimited ==
  \A t \in SeqThreads :
    (Done(t) /\ Declared(req[t].method, req[t].path))
      => /\ Pos(stages[t], "admission") > 0
         /\ resp[t] # TooMany
              => \E i \in 1..Len(admitted[req[t].ip]) :
                   admitted[req[t].ip][i] = lnow[t]

\* C8: a request to one of the allow-listed paths without an Authorization
\* header is never rejected at the authorization stage; the bypass is by
\* equality of the whole path, so on any other path a request without the
\* header that reaches the authorization stage is rejected with 401.
C8_PublicBypassExact ==
  \A t \in SeqThreads :
    /\ (req[t].path \in AllowListed /\ req[t].auth = NoHeader)
         => /\ resp[t] # Unauthorized
            /\ (Done(t) /\ Len(stages[t]) >= 3) => Len(stages[t]) = 4
    /\ (pc[t] # "idle" /\ req[t].path \notin AllowListed
          /\ req[t].auth = NoHeader)
         => /\ pc[t] # "dispatch"
            /\ calls[t] = <<>>
            /\ (Done(t) /\ Len(stages[t]) >= 3)
                 => resp[t] = Unauthorized /\ Len(stages[t]) = 3

\* POST /auth/login without a header went past the authorization stage
C8_Witness ==
  \E t \in SeqThreads :
    /\ Done(t)
    /\ req[t].path = << "auth", "login" >>
    /\ req[t].auth = NoHeader
    /\ Len(stages[t]) = 4
    /\ Len(calls[t]) = 1

\* C9 as stated: GET /metrics is forwarded only with a valid bearer token
\* and is rejected with 401 without one.
C9_MetricsNeedsToken ==
  \A t \in SeqThreads :
    (req[t].path = << "metrics" >> /\ req[t].method = "GET")
      => /\ calls[t] # <<>>
              => (req[t].auth.scheme = "Bearer"
                    /\ req[t].auth.token.sig = "good")
         /\ (Done(t) /\ Len(stages[t]) >= 3 /\ NoValidToken(t))
              => resp[t] = Unauthorized

\* C9 amended: GET /metrics needs no token - /metrics is on the allow-list,
\* so a request to it that passes the admission check is forwarded to the
\* metrics upstream whether or not it carries a valid bearer token, and the
\* gateway never rejects it with 401.
C9_MetricsPublic ==
  \A t \in SeqThreads :
    (req[t].path = << "metrics" >> /\ req[t].method = "GET")
      => /\ resp[t] # Unauthorized
         /\ (Done(t) /\ Len(stages[t]) >= 3)
              => /\ Len(calls[t]) = 1
                 /\ calls[t][1].url = "metrics-service"
                 /\ calls[t][1].path = << "metrics" >>
                 /\ calls[t][1].method = "GET"

\* GET /metrics without any Authorization header was forwarded
C9_Witness ==
  \E t \in SeqThreads :
    /\ Done(t)
    /\ req[t].path = << "metrics" >>
    /\ req[t].method = "GET"
    /\ req[t].auth = NoHeader
    /\ Len(calls[t]) = 1
    /\ calls[t][1].url = "metrics-service"
    /\ resp[t].status = 200

\* C10: a request that reaches the dispatch stage makes one outbound call,
\* never more, and gets exactly one response; when the call fails by timeout
\* or connection error the response is 502 with the generic body; a request
\* waiting in the dispatch stage can always go on to its response.
C10_DispatchOnce ==
  \A t \in SeqThreads :
    /\ nresp[t] <= 1
    /\ Done(t) <=> nresp[t] = 1
    /\ pc[t] = "dispatch"
         => /\ calls[t] = <<>>
            /\ ENABLED (\E o \in UpstreamOutcomes : Dispatch(t, o))
    /\ Pos(stages[t], "dispatch") > 0
         => /\ Done(t)
            /\ Len(calls[t]) = 1
            /\ calls[t][1].result \in {"timeout", "connection_error"}
                 => resp[t] = [status |-> 502, body |-> UnreachableBody]
            /\ calls[t][1].result = "response" => resp[t].status # 502

\* the upstream timed out and the caller got the generic 502
C10_Witness ==
  \E t \in SeqThreads :
    /\ Done(t)
    /\ Len(calls[t]) = 1
    /\ calls[t][1].result = "timeout"
    /\ resp[t] = [status |-> 502, body |-> UnreachableBody]

(***************************************************************************)
(* Properties of the health aggregation.                                   *)
(***************************************************************************)
\* the thread has answered a GET /health
HealthDone(t) ==
  /\ pc[t] = "done"
  /\ req[t].method = "GET"
  /\ req[t].path = <<"health">>

\* C12: the answer to GET /health is "healthy" with 200 if and only if every
\* configured upstream contributed exactly "healthy", and is "degraded" with
\* 503 otherwise; the document lists every upstream, in the order of SERVICES,
\* with the status its own check contributed.
C12_CompositeHealth ==
  \A t \in Threads :
    HealthDone(t) =>
      /\ Len(results[t]) = Len(SERVICES)
      /\ Len(calls[t]) = Len(SERVICES)
      /\ \A i \in 1..Len(SERVICES) :
           /\ calls[t][i].url = SERVICES[i]
           /\ calls[t][i].result = "json" /\ calls[t][i].status_field # None
                => results[t][i] = calls[t][i].status_field
      /\ IF \A i \in 1..Len(SERVICES) : results[t][i] = "healthy"
           THEN resp[t] = [status |-> 200, body |-> "healthy"]
           ELSE resp[t] = [status |-> 503, body |-> "degraded"]

\* the first upstream reported healthy, the second could not be reached, and
\* the document says so under a degraded composite status
C12_Witness ==
  \E t \in Threads :
    /\ HealthDone(t)
    /\ results[t][1] = "healthy"
    /\ results[t][2] = "unreachable"
    /\ resp[t] = [status |-> 503, body |-> "degraded"]

\* the i-th check of the thread failed in the sense of the specification
CheckFailed(t, i) ==
  \/ calls[t][i].result # "json"
  \/ calls[t][i].code \notin 200..299

\* the checks of the thread that have returned
Returned(t) ==
  IF pc[t] \in {"health", "done"} /\ req[t].path = <<"health">>
    THEN 1..Len(results[t])
    ELSE {}

\* C13 as stated: every failed check (timeout, connection error, non-2xx
\* response, malformed or non-JSON body) contributes "unreachable", and only a
\* successful response contributes the status field it reported.
C13_FailuresUnreachable ==
  \A t \in Threads :
    \A i \in Returned(t) :
      IF CheckFailed(t, i)
        THEN results[t][i] = "unreachable"
        ELSE results[t][i] = (IF calls[t][i].status_field = None
                                THEN "unknown"
                                ELSE calls[t][i].status_field)

\* C13: a check that raised (timeout, connection error, body that is not
\* JSON or not a JSON object) contributes "unreachable"; a response whose
\* body is a JSON object contributes its status field ("unknown" when it has
\* none) whatever its status code; and GET /health never answers anything
\* but 200 or 503.
C13_ExceptionsUnreachable ==
  \A t \in Threads :
    /\ \A i \in Returned(t) :
         IF calls[t][i].result # "json"
           THEN results[t][i] = "unreachable"
           ELSE results[t][i] = (IF calls[t][i].status_field = None
                                   THEN "unknown"
                                   ELSE calls[t][i].status_field)
    /\ HealthDone(t) => resp[t].status \in {200, 503}

\* a 503 answer with a JSON body was listed with the status it reported, and
\* a malformed body as unreachable, in a document that was delivered
C13_Witness ==
  \E t \in Threads :
    /\ HealthDone(t)
    /\ \E i \in 1..Len(results[t]) :
         /\ calls[t][i].result = "json"
         /\ calls[t][i].code = 503
         /\ results[t][i] = "degraded"
    /\ \E i \in 1..Len(results[t]) :
         /\ calls[t][i].result = "malformed"
         /\ results[t][i] = "unreachable"

\* C14: while the check of one upstream has not returned, the check of the
\* next one can start.
C14_ProbesIndependent ==
  \A t \in Threads :
    (/\ pc[t] = "health"
     /\ inflight[t] # 0
     /\ Len(calls[t]) < Len(SERVICES))
      => ENABLED HealthSend(t)

(***************************************************************************)
(* Frame and invariant of the windows.                                     *)
(***************************************************************************)
\* the window of an address: the deque ip_trackers holds for it
Window(ip) ==
  IF ip \in DOMAIN ip_trackers THEN deques[ip_trackers[ip]] ELSE <<>>

\* the window after the step
WindowNext(ip) ==
  IF ip \in DOMAIN ip_trackers' THEN deques'[ip_trackers'[ip]] ELSE <<>>

\* q is what is left of p after entries were removed from its front
IsSuffix(q, p) ==
  /\ Len(q) <= Len(p)
  /\ \A i \in 1..Len(q) : q[i] = p[Len(p) - Len(q) + i]

\* the step in which the admission check of thread t returns reject
RejectStep(t) == pc[t] = "rl64" /\ pc'[t] = "done"

\* the step in which the admission check of thread t returns accept
AdmitStep(t) == pc[t] = "rl68" /\ pc'[t] = "auth"

\* what one step of execution may do to the windows
FrameStep ==
  /\ \A t \in Threads :
       /\ RejectStep(t) =>
            /\ resp'[t].status = 429
            /\ Len(Window(req[t].ip)) >= RATE_LIMIT_MAX
            /\ \A ip \in IPs : WindowNext(ip) = Window(ip)
       /\ AdmitStep(t) =>
            /\ WindowNext(req[t].ip) = Append(Window(req[t].ip), lnow[t])
            /\ \A ip \in IPs \ {req[t].ip} : WindowNext(ip) = Window(ip)
  /\ \A ip \in IPs :
       /\ WindowNext(ip) # Window(ip) =>
            \E t \in Threads : req[t].ip = ip /\ pc[t] \in {"rl62", "rl68"}
       /\ IsSuffix(Window(ip), admitted[ip])

\* C15: a rejected admission check leaves every window as it is (the
\* identity's window holding the maximum after the purge); an admitted one
\* appends exactly its timestamp to the identity's window and leaves every
\* other window as it is; a window only ever holds timestamps of admitted
\* requests.
C15_RejectRecordsNothing == [][FrameStep]_vars

\* a request of one address was rejected with its window still holding
\* exactly the maximum, while the other address has a window of its own
C15_Witness ==
  \E t \in Threads :
    /\ Rejected429(t)
    /\ Len(Window(req[t].ip)) = RATE_LIMIT_MAX
    /\ \E ip \in IPs \ {req[t].ip} : Window(ip) # <<>>

\* the timestamps of q are in non-decreasing order
NonDecreasing(q) == \A i \in 1..Len(q) : \A j \in i..Len(q) : q[i] <= q[j]

\* every timestamp of q lies in [hi - RATE_LIMIT_WINDOW, hi]
WithinWindow(q, hi) ==
  \A i \in 1..Len(q) : hi - RATE_LIMIT_WINDOW <= q[i] /\ q[i] <= hi

TrailingDenied(t) ==
  CountIn(denied[req[t].ip], lnow[t] - RATE_LIMIT_WINDOW, lnow[t])

\* C19: requests answered 401 consume quota: an admission check that finds
\* maxRequests such requests of the identity in its trailing window rejects,
\* whatever token the request carries, so no request passes the check with
\* maxRequests of them in its window.
C19_DeniedConsumeQuota ==
  \A t \in Threads :
    /\ (pc[t] = "rl64" /\ TrailingDenied(t) >= RATE_LIMIT_MAX)
         => LimitReached(Window(req[t].ip))
    /\ pc[t] = "rl68" => TrailingDenied(t) < RATE_LIMIT_MAX
    /\ (/\ pc[t] = "done"
        /\ Pos(stages[t], "authorization") # 0
        /\ resp[t].status # 401)
         => TrailingDenied(t) < RATE_LIMIT_MAX

\* a request with a valid token got 429 after maxRequests requests of its
\* address were answered 401 within the window
C19_Witness ==
  \E t \in Threads :
    /\ Rejected429(t)
    /\ ValidBearer(req[t].auth, now)
    /\ TrailingDenied(t) = RATE_LIMIT_MAX

(***************************************************************************)
(* Properties of the forwarding.                                           *)
(***************************************************************************)
\* the thread's request was dispatched and the upstream answered
Answered(t) ==
  /\ pc[t] = "done"
  /\ Pos(stages[t], "dispatch") # 0
  /\ Len(calls[t]) = 1
  /\ calls[t][1].result = "response"

\* C11: when the upstream answers, the gateway's response has the upstream's
\* status code and body, whatever the status, and has copied from the
\* upstream exactly the headers that are not content-encoding, content-length,
\* transfer-encoding or connection in any spelling.
C11_RelayVerbatim ==
  \A t \in Threads :
    Answered(t) =>
      /\ resp[t].status = calls[t][1].code
      /\ resp[t].body = calls[t][1].body
      /\ resp_headers[t] \subseteq calls[t][1].resp_headers
      /\ \A h \in calls[t][1].resp_headers :
           h \in resp_headers[t] <=> Lower(h[1]) \notin excluded_headers

\* an upstream 503 carrying CONNECTION and X-Trace was relayed as 503 with
\* X-Trace and without CONNECTION
C11_Witness ==
  \E t \in Threads :
    /\ Answered(t)
    /\ resp[t].status = 503
    /\ << "CONNECTION", "close" >> \in calls[t][1].resp_headers
    /\ << "X-Trace", "abc" >> \in resp_headers[t]
    /\ << "CONNECTION", "close" >> \notin resp_headers[t]

\* the outbound calls the dispatcher made for the thread's request
DispatchCalls(t) ==
  IF Pos(stages[t], "dispatch") # 0 THEN 1..Len(calls[t]) ELSE {}

\* C17: every outbound request of the dispatcher carries no header named
\* host, connection or content-length in any spelling, carries every other
\* header of the inbound request (the Authorization header among them) with
\* its value, carries nothing else, and carries X-Forwarded-By once, with the
\* value api-gateway.
C17_OutboundHeaders ==
  \A t \in Threads :
    \A i \in DispatchCalls(t) :
      LET sent == calls[t][i].headers
      IN  /\ \A h \in sent : Lower(h[1]) \notin StrippedRequestHeaders
          /\ \A h \in req[t].headers :
               Lower(h[1]) \notin
                   StrippedRequestHeaders \cup { "x-forwarded-by" }
                 => \E g \in sent : Lower(g[1]) = Lower(h[1]) /\ g[2] = h[2]
          /\ \A g \in sent :
               \/ Lower(g[1]) = "x-forwarded-by"
               \/ \E h \in req[t].headers :
                    Lower(g[1]) = Lower(h[1]) /\ g[2] = h[2]
          /\ { g \in sent : Lower(g[1]) = "x-forwarded-by" }
               = { << "X-Forwarded-By", "api-gateway" >> }
          /\ calls[t][i].auth = req[t].auth

\* a request that came with host, CONTENT-LENGTH, Accept and an
\* x-forwarded-by of its own was sent on
C17_Witness ==
  \E t \in Threads :
    /\ DispatchCalls(t) # {}
    /\ { "host", "CONTENT-LENGTH", "Accept", "x-forwarded-by" }
         \subseteq { h[1] : h \in req[t].headers }
    /\ << "Accept", "application/json" >> \in calls[t][1].headers

(***************************************************************************)
(* Properties of get_redis.                                                *)
(***************************************************************************)
\* what holds in every state of a call of get_redis
RedisState ==
  /\ pings <= max_retries
  /\ Len(waits) = attempts
  /\ \A k \in 1..Len(waits) : waits[k] = Min(Pow2(k), 10)
  /\ rresult = None =>
       /\ pings = max_retries
       /\ attempts = max_retries
       /\ redis_client = None
  /\ (rresult = "client" /\ pings > 0) =>
       /\ redis_client = "client"
       /\ pings = attempts + 1
  /\ (rpc = "idle" /\ rcalls > 0) => rresult \in { None, "client" }

\* what holds of every step of a call of get_redis
RedisStep ==
  /\ (rpc = "l35" /\ redis_client # None /\ rpc' # rpc) =>
       (rpc' = "idle" /\ rresult' = redis_client /\ pings' = 0)
  /\ redis_client # None => redis_client' = redis_client

HeldDecision(t) ==
  /\ pc[t] = "auth"
  /\ pc'[t] # "auth"
  /\ same_secret
  /\ held # NoToken
  /\ req[t].auth = [scheme |-> "Bearer", token |-> held]

\* the body of the last login request is a known email with its password
ValidLogin ==
  /\ login_body # NoBody
  /\ login_body.email \in { "admin@devpulse.io", "alice@devpulse.io",
                            "raj@devpulse.io" }
  /\ login_body.password = "password123"

\* a login answers with a token exactly when the credentials are valid
TokenOnlyForValidLogin ==
  /\ login_resp.token # NoToken <=> (login_resp.status = 200 /\ ValidLogin)
  /\ login_resp.status \in { 400, 401 } => ~ValidLogin

\* the claim's two cases, the time since issuance measured on the clock
ValidForLifetimeStep ==
  \A t \in Threads :
    HeldDecision(t) =>
      /\ Clock - issued_at < TokenLifetime * TicksPerSecond
           => pc'[t] = "dispatch"
      /\ Clock - issued_at > TokenLifetime * TicksPerSecond
           => resp'[t].status = 401

\* C20 as stated: a token of a valid login is accepted on every protected
\* route at any time less than the lifetime after issuance and rejected with
\* 401 at any time more than the lifetime after issuance, the secrets being
\* the same; a failed login yields no token.
C20_ValidForOneHour ==
  /\ [][ValidForLifetimeStep]_vars
  /\ []TokenOnlyForValidLogin

\* the same with the time since issuance counted in whole seconds
ValidForWholeSecondsStep ==
  \A t \in Threads :
    HeldDecision(t) =>
      /\ now - (issued_at \div TicksPerSecond) < TokenLifetime
           => pc'[t] = "dispatch"
      /\ now - (issued_at \div TicksPerSecond) >= TokenLifetime
           => resp'[t].status = 401

\* C20: exp is the second of issuance plus the lifetime, so the token is
\* accepted exactly while the gateway's clock, cut to whole seconds, is less
\* than the lifetime past the second of issuance: it is accepted up to the
\* lifetime minus one second after issuance, rejected from the lifetime on,
\* and rejected up to one second early for a token issued inside a second;
\* a failed login yields no token.
C20_ValidForWholeSeconds ==
  /\ [][ValidForWholeSecondsStep]_vars
  /\ []TokenOnlyForValidLogin

\* a token issued inside a second is being refused less than its lifetime
\* after it was issued
C20_Witness ==
  \E t \in Threads :
    /\ pc[t] = "done"
    /\ resp[t] = Unauthorized
    /\ same_secret
    /\ req[t].auth = [scheme |-> "Bearer", token |-> held]
    /\ held.exp = now
    /\ Clock - issued_at < TokenLifetime * TicksPerSecond
    /\ login_resp.status = 401

=============================================================================
